---- MODULE Spec2Model ----
(***************************************************************************)
(* Model of src/algo.rs of hex2d-dpcext: the breadth first search          *)
(* Traverser (mod bfs), the angle-recursive line of sight (mod los) and    *)
(* the line-check-plus-flood line of sight (mod los2).                     *)
(*                                                                         *)
(* Coordinates are axial hex coordinates <<x, y>> (z = -x-y), directions    *)
(* are the six unit directions of the hex2d crate, named by strings.       *)
(* An Option is a sequence: <<>> is None and <<c>> is Some(c).              *)
(***************************************************************************)
EXTENDS Integers, Sequences, FiniteSets, TLC

VARIABLES
    visited,      \* bfs: HashMap Coordinate -> Visited{prev, dist}
    to_traverse,  \* bfs: VecDeque of coordinates pending expansion
    can_pass,     \* bfs: the set of coordinates for which can_pass returns true
    is_dest,      \* bfs: the set of coordinates for which is_dest returns true
    start,        \* bfs: start coordinate
    panicked,     \* bfs: TRUE once the expect() of find has failed
    pushed,       \* history: every coordinate pushed onto to_traverse, in order
    found,        \* history: the coordinates returned as Some(c) by find, in order
    nones,        \* history: how many find calls returned None (capped)
    last_call,    \* history: the most recent call, its argument and its result
    opaqueness,   \* los: the opaqueness closure, [default, special] (see Opaq)
    light,        \* los: the light argument of los
    origin,       \* los: the pos argument of los
    dirs,         \* los: the dirs argument of los, a sequence of directions
    los_pc,       \* los: "ready" before the call, "done" after it returned,
                  \*      "overflow" when its recursion exhausted the stack
    reports,      \* los, los2: the calls of visible, in order
    entered,      \* los2: the los_rec calls that inserted their pos into visited
    line,         \* los2: the candidate pairs los_check_line iterates over
    target,       \* los2: the pos argument of los_check_line
    line_result   \* los2: the Option of the pair returned by los_check_line

bfs_vars == <<visited, to_traverse, can_pass, is_dest, start, panicked,
              pushed, found, nones, last_call>>

los_vars == <<opaqueness, light, origin, dirs, los_pc, reports,
              entered, line, target, line_result>>

vars == <<bfs_vars, los_vars>>

-----------------------------------------------------------------------------
(* Bounds of the model *)

\* Radius of the hex disk the searches run in; its outermost ring is impassable.
Radius == 3

\* How many times find may return None before the model stops calling it.
MaxNone == 2

\* Largest light handed to los.
MaxLight == 4

\* Largest opaqueness of a coordinate.
MaxOpaq == 4

\* Number of nested los_rec calls the stack holds. A los call that ends never
\* nests more than MaxLight + 2 calls under the opaqueness functions of InitLos.
MaxDepth == 8
\* Largest light of a los2::los call: light 5 is the least at which a coordinate
\* behind a blocker has both side neighbours in direct sight.
MaxLight2 == 5
\* Largest number of candidate pairs of a line handed to los_check_line.
MaxLine == 3

-----------------------------------------------------------------------------
(* The hex2d coordinate algebra used by algo.rs *)

None == <<>>

Some(c) == <<c>>

Abs(n) == IF n < 0 THEN -n ELSE n

\* Direction::all(): the six directions in clockwise order.
AllDirs == <<"YZ", "XZ", "XY", "ZY", "ZX", "YX">>

Directions == {AllDirs[i] : i \in 1..6}

\* Coordinate::from(Direction): the unit step of a direction.
DirVec(d) ==
    CASE d = "YZ" -> <<0, 1>>
      [] d = "XZ" -> <<1, 0>>
      [] d = "XY" -> <<1, -1>>
      [] d = "ZY" -> <<0, -1>>
      [] d = "ZX" -> <<-1, 0>>
      [] d = "YX" -> <<-1, 1>>

\* Coordinate + Direction
Step(c, d) == <<c[1] + DirVec(d)[1], c[2] + DirVec(d)[2]>>

\* Coordinate::neighbors(): the six adjacent coordinates, in Direction::all() order.
neighbors(c) == [i \in 1..6 |-> Step(c, AllDirs[i])]

\* Coordinate::distance(): steps between two coordinates on the hex grid.
HexDist(a, b) ==
    LET dx == a[1] - b[1]
        dy == a[2] - b[2]
    IN  (Abs(dx) + Abs(dy) + Abs(dx + dy)) \div 2

Adjacent(a, b) == HexDist(a, b) = 1

Origin == <<0, 0>>

World == {c \in (-Radius..Radius) \X (-Radius..Radius) : HexDist(c, Origin) <= Radius}

Interior == {c \in World : HexDist(c, Origin) < Radius}

\* The coordinates (k, 0), k >= 0: the ray from Origin in direction XZ.
Ray == {c \in World : c[2] = 0 /\ c[1] >= 0}

\* Direction + Angle, for the angles Left and Right (Direction::from_int wraps).
DirIndex(d) == CHOOSE i \in 1..6 : AllDirs[i] = d

Turn(d, angle) ==
    CASE angle = "Forward" -> d
      [] angle = "Right"   -> AllDirs[((DirIndex(d) - 1 + 1) % 6) + 1]
      [] angle = "Left"    -> AllDirs[((DirIndex(d) - 1 + 5) % 6) + 1]

-----------------------------------------------------------------------------
(* mod bfs: Traverser *)

\* Traverser::new
New(cp, dst, s) ==
    [ visited     |-> (s :> [prev |-> s, dist |-> 0]),
      to_traverse |-> <<s>>,
      can_pass    |-> cp,
      is_dest     |-> dst,
      start       |-> s ]

\* find, the body of `for &npos in pos.neighbors()`: the Occupied / Vacant match.
\* t is the traverser with the history of pushes.
VisitNeighborOverwrite(t, pos, npos, dist) ==
    [t EXCEPT !.visited     = (npos :> [prev |-> pos, dist |-> dist]) @@ @,
              !.to_traverse = IF npos \in DOMAIN t.visited THEN @ ELSE Append(@, npos),
              !.pushed      = IF npos \in DOMAIN t.visited THEN @ ELSE Append(@, npos)]

VisitNeighborPushFront(t, pos, npos, dist) ==
    IF npos \in DOMAIN t.visited
    THEN t
    ELSE [t EXCEPT !.visited     = (npos :> [prev |-> pos, dist |-> dist]) @@ @,
                   !.to_traverse = <<npos>> \o @,
                   !.pushed      = Append(@, npos)]

VisitNeighborNoInsert(t, pos, npos, dist) ==
    IF npos \in DOMAIN t.visited \/ npos \in {t.to_traverse[i] : i \in DOMAIN t.to_traverse}
    THEN t
    ELSE [t EXCEPT !.to_traverse = Append(@, npos),
                   !.pushed      = Append(@, npos)]

VisitNeighbor(t, pos, npos, dist) ==
    IF npos \in DOMAIN t.visited
    THEN t
    ELSE [t EXCEPT !.visited     = (npos :> [prev |-> pos, dist |-> dist]) @@ @,
                   !.to_traverse = Append(@, npos),
                   !.pushed      = Append(@, npos)]

\* find, the loop over pos.neighbors(), from neighbour i on.
RECURSIVE ExpandFrom(_, _, _, _)
ExpandFrom(t, pos, dist, i) ==
    IF i > 6
    THEN t
    ELSE ExpandFrom(VisitNeighbor(t, pos, neighbors(pos)[i], dist), pos, dist, i + 1)

\* find, `let dist = dist + 1`
NextDistSame(d) == d

NextDist(d) == d + 1

\* find, the `if (self.can_pass)(pos)` block for the popped pos.
Expand(t, pos) ==
    IF pos \notin t.can_pass
    THEN t
    ELSE IF pos \notin DOMAIN t.visited
         THEN [t EXCEPT !.panicked = TRUE]   \* expect("BFS: Should have been visited already")
         ELSE ExpandFrom(t, pos, NextDist(t.visited[pos].dist), 1)

\* find, the `if (self.is_dest)(pos) { return Some(pos) }` after the can_pass block.
\* Pending: the loop has not returned yet.
Pending == <<"loop">>

DestCheckOnlyPassable(t, pos) ==
    IF pos \in t.is_dest /\ pos \in t.can_pass THEN [t EXCEPT !.ret = Some(pos)] ELSE t

DestCheck(t, pos) ==
    IF pos \in t.is_dest THEN [t EXCEPT !.ret = Some(pos)] ELSE t

\* find, one iteration of `loop` on a non-empty queue: pop_front, expand, destination check.
FindIterReturnFirst(t) ==
    LET pos    == Head(t.to_traverse)
        popped == [t EXCEPT !.to_traverse = Tail(@),
                            !.popped      = Append(@, pos),
                            !.pre         = [visited |-> t.visited, to_traverse |-> t.to_traverse]]
    IN  IF pos \in t.is_dest
        THEN [popped EXCEPT !.ret = Some(pos)]
        ELSE Expand(popped, pos)

FindIter(t) ==
    LET pos    == Head(t.to_traverse)
        popped == [t EXCEPT !.to_traverse = Tail(@),
                            !.popped      = Append(@, pos),
                            !.pre         = [visited |-> t.visited, to_traverse |-> t.to_traverse]]
        grown  == Expand(popped, pos)
    IN  IF grown.panicked THEN grown ELSE DestCheck(grown, pos)

\* find, the whole `loop`: runs until the queue is empty (None) or a destination is popped.
RECURSIVE FindLoop(_)
FindLoop(t) ==
    IF t.panicked
    THEN t
    ELSE IF t.to_traverse = <<>>
         THEN [t EXCEPT !.ret = None]
         ELSE LET u == FindIter(t)
              IN  IF u.ret # Pending THEN u ELSE FindLoop(u)

\* Traverser::backtrace
backtracePrevOfPrev(vis, pos) ==
    IF pos \in DOMAIN vis
    THEN IF vis[pos].prev \in DOMAIN vis THEN Some(vis[vis[pos].prev].prev) ELSE Some(vis[pos].prev)
    ELSE None

backtrace(vis, pos) ==
    IF pos \in DOMAIN vis THEN Some(vis[pos].prev) ELSE None

\* Traverser::backtrace_last: the loop, with the number of iterations still allowed.
\* A walk of more than Cardinality(DOMAIN vis) links repeats a coordinate, so the
\* loop of the code never ends: <<"diverges">>.
Diverges == <<"diverges">>

RECURSIVE backtrace_last_loop(_, _, _, _)
backtrace_last_loop(vis, s, pos, fuel) ==
    IF pos \notin DOMAIN vis
    THEN None
    ELSE IF vis[pos].prev = s
         THEN Some(pos)
         ELSE IF fuel = 0
              THEN Diverges
              ELSE backtrace_last_loop(vis, s, vis[pos].prev, fuel - 1)

backtrace_last_returns_prev(vis, s, pos) ==
    IF pos \notin DOMAIN vis
    THEN None
    ELSE IF vis[pos].prev = s THEN Some(vis[pos].prev)
         ELSE backtrace_last_loop(vis, s, vis[pos].prev, Cardinality(DOMAIN vis))

backtrace_last(vis, s, pos) ==
    backtrace_last_loop(vis, s, pos, Cardinality(DOMAIN vis))

-----------------------------------------------------------------------------
(* mod los: the angle-recursive line of sight *)

\* The opaqueness closure applied to a coordinate: o.special lists the
\* coordinates whose opaqueness is not o.default.
Opaq(o, c) == IF c \in DOMAIN o.special THEN o.special[c] ELSE o.default

\* los_rec, `if opaq >= light { return; }`
BlockedStrict(opaq, l) == opaq > l

Blocked(opaq, l) == opaq >= l

\* los_rec, `light = light - opaq`
RemainingSwapped(l, opaq) == opaq - l

Remaining(l, opaq) == l - opaq

\* los_rec, `let neighbors = match (dir, pdir) {...}`
NeighborDirsNoConverge(main_dir, dir, pdir) ==
    IF dir # None /\ pdir # None
    THEN IF dir = pdir THEN <<dir[1]>> ELSE <<dir[1], pdir[1]>>
    ELSE IF dir # None
         THEN IF main_dir = dir[1]
              THEN <<dir[1], Turn(dir[1], "Left"), Turn(dir[1], "Right")>>
              ELSE <<dir[1]>>
         ELSE <<main_dir, Turn(main_dir, "Left"), Turn(main_dir, "Right")>>

NeighborDirsFan(main_dir, dir, pdir) ==
    IF dir # None
    THEN <<dir[1], Turn(dir[1], "Left"), Turn(dir[1], "Right")>>
    ELSE <<main_dir, Turn(main_dir, "Left"), Turn(main_dir, "Right")>>

NeighborDirs(main_dir, dir, pdir) ==
    IF dir # None /\ pdir # None
    THEN IF dir = pdir THEN <<dir[1]>> ELSE <<dir[1], pdir[1]>>
    ELSE IF dir # None
         THEN IF main_dir = dir[1]
              THEN <<dir[1], Turn(dir[1], "Left"), Turn(dir[1], "Right")>>
              ELSE <<dir[1], main_dir>>
         ELSE <<main_dir, Turn(main_dir, "Left"), Turn(main_dir, "Right")>>

\* los_rec. acc is what the los call has done so far: its reports and whether the
\* stack is exhausted; depth is the number of los_rec calls on the stack, this one
\* included; sweep is the index in dirs of the sweep and path the directions taken
\* from the origin to pos (kept for the reports only).
RECURSIVE los_rec(_, _, _, _, _, _, _, _, _, _, _)
RECURSIVE los_rec_loop(_, _, _, _, _, _, _, _, _, _, _, _)
los_rec(acc, o, l, pos, start_dir, main_dir, dir, pdir, depth, sweep, path) ==
    IF acc.overflow
    THEN acc
    ELSE IF depth > MaxDepth
         THEN [acc EXCEPT !.overflow = TRUE]
         ELSE LET opaq == Opaq(o, pos)
              IN  IF Blocked(opaq, l)
                  THEN acc
                  ELSE los_rec_loop(
                         [acc EXCEPT !.reports = Append(@, [pos   |-> pos,
                                                           light |-> Remaining(l, opaq),
                                                           sweep |-> sweep,
                                                           path  |-> path])],
                         o, Remaining(l, opaq), pos, start_dir, main_dir, dir,
                         NeighborDirs(main_dir, dir, pdir), 1, depth, sweep, path)

\* los_rec, `for &d in neighbors.iter()` from neighbour i on.
los_rec_loop(acc, o, l, pos, start_dir, main_dir, dir, ns, i, depth, sweep, path) ==
    IF i > Len(ns) \/ acc.overflow
    THEN acc
    ELSE LET d == ns[i]
             r == los_rec(acc, o, l, Step(pos, d), start_dir,
                          IF dir # None THEN d ELSE main_dir,
                          Some(d), dir, depth + 1, sweep, Append(path, d))
         IN  los_rec_loop(r, o, l, pos, start_dir, main_dir, dir, ns, i + 1, depth, sweep, path)

\* los, `for dir in dirs.iter()` from sweep i on.
RECURSIVE los(_, _, _, _, _, _)
los(acc, o, l, pos, ds, i) ==
    IF i > Len(ds) \/ acc.overflow
    THEN acc
    ELSE los(los_rec(acc, o, l, pos, ds[i], ds[i], None, None, 1, i, <<>>),
             o, l, pos, ds, i + 1)

-----------------------------------------------------------------------------
(* hex2d: the line with edge detection and the clockwise direction *)

\* The literal 0.000001 of line_to_with_edge_detection is 1 / EpsInv.
EpsInv == 1000000

\* f32::round of a / m (m > 0): to the nearest integer, halves away from zero.
Round(a, m) == IF a >= 0 THEN (2 * a + m) \div (2 * m)
                          ELSE -((2 * (-a) + m) \div (2 * m))

\* Coordinate::nearest(x / m, y / m).
nearest(x, y, m) ==
    LET z  == 0 - x - y
        rx == Round(x, m)
        ry == Round(y, m)
        rz == Round(z, m)
        x_diff == Abs(rx * m - x)
        y_diff == Abs(ry * m - y)
        z_diff == Abs(rz * m - z)
    IN  IF x_diff > y_diff /\ x_diff > z_diff
        THEN <<0 - ry - rz, ry>>
        ELSE IF y_diff > z_diff
             THEN <<rx, 0 - rx - rz>>
             ELSE <<rx, ry>>

\* a.line_to_with_edge_detection(b): for i in 0..=n the point a + (b - a) * i / n
\* is moved by +0.000001 and by -0.000001 in x and y and each is mapped to its
\* nearest coordinate. Scaled by m = n * EpsInv the arithmetic is exact.
line_to_with_edge_detection(a, b) ==
    IF a = b
    THEN << <<a, a>> >>
    ELSE LET n == HexDist(a, b)
             m == n * EpsInv
         IN  [k \in 1..(n + 1) |->
                 LET x == EpsInv * (a[1] * n + (b[1] - a[1]) * (k - 1))
                     y == EpsInv * (a[2] * n + (b[2] - a[2]) * (k - 1))
                 IN  <<nearest(x + n, y + n, m), nearest(x - n, y - n, m)>>]

\* Coordinate::direction_from_center_cw
direction_from_center_cw(c) ==
    LET x  == c[1]
        y  == c[2]
        z  == 0 - c[1] - c[2]
        xy == IF z < 0 THEN x >= y ELSE x > y
        yz == IF x < 0 THEN y >= z ELSE y > z
        zx == IF y < 0 THEN z >= x ELSE z > x
    IN  CASE  xy /\  yz /\ ~zx -> Some("XZ")
          []  xy /\ ~yz /\ ~zx -> Some("XY")
          []  xy /\ ~yz /\  zx -> Some("ZY")
          [] ~xy /\ ~yz /\  zx -> Some("ZX")
          [] ~xy /\  yz /\  zx -> Some("YX")
          [] ~xy /\  yz /\ ~zx -> Some("YZ")
          [] ~xy /\ ~yz /\ ~zx -> None

\* a.direction_to_cw(b)
direction_to_cw(a, b) == direction_from_center_cw(<<b[1] - a[1], b[2] - a[2]>>)

-----------------------------------------------------------------------------
(* mod los2 *)

Min(a, b) == IF a <= b THEN a ELSE b

\* los_check_line, the for loop over the candidate pairs: acc is
\* [opaq_sum1, last1, opaq_sum2, last2].
RECURSIVE los_check_line_loop(_, _, _, _, _)
los_check_line_loop(acc, o, l, pairs, i) ==
    IF i > Len(pairs)
    THEN acc
    ELSE LET c1 == pairs[i][1]
             c2 == pairs[i][2]
             a1 == IF acc.opaq_sum1 < l
                   THEN [acc EXCEPT !.opaq_sum1 = @ + Opaq(o, c1), !.last1 = c1]
                   ELSE acc
             a2 == IF a1.opaq_sum2 < l
                   THEN [a1 EXCEPT !.opaq_sum2 = @ + Opaq(o, c2), !.last2 = c2]
                   ELSE a1
         IN  los_check_line_loop(a2, o, l, pairs, i + 1)

\* los_check_line, the match on (last1 == pos, last2 == pos).
LineMatchFirst(sums, l, pos) ==
    CASE sums.last1 = pos ->
             [visible |-> TRUE, light |-> l - sums.opaq_sum1]
      [] sums.last1 # pos /\ sums.last2 = pos ->
             [visible |-> TRUE, light |-> l - sums.opaq_sum2]
      [] sums.last1 # pos /\ sums.last2 # pos ->
             [visible |-> FALSE, light |-> l - l]

LineMatch(sums, l, pos) ==
    CASE sums.last1 = pos /\ sums.last2 = pos ->
             [visible |-> TRUE, light |-> l - Min(sums.opaq_sum1, sums.opaq_sum2)]
      [] sums.last1 = pos /\ sums.last2 # pos ->
             [visible |-> TRUE, light |-> l - sums.opaq_sum1]
      [] sums.last1 # pos /\ sums.last2 = pos ->
             [visible |-> TRUE, light |-> l - sums.opaq_sum2]
      [] sums.last1 # pos /\ sums.last2 # pos ->
             [visible |-> FALSE, light |-> l - l]

\* los_check_line with the candidate pairs of the line given.
los_check_line_over(o, l, s, pairs, pos) ==
    LineMatch(los_check_line_loop([opaq_sum1 |-> 0, last1 |-> s,
                                   opaq_sum2 |-> 0, last2 |-> s], o, l, pairs, 1),
              l, pos)

\* los2::los_check_line(opaqueness, light, start, pos, dir)
los_check_line(o, l, s, pos) ==
    los_check_line_over(o, l, s, line_to_with_edge_detection(s, pos), pos)

\* The nesting of los2::los_rec calls the stack is taken to hold.
StackDepth == 2 * MaxLight2 + 2

\* los_rec, the angles of the recursive calls: the else branch returns.
FloodAnglesAlways(directly_visible) == <<"Forward", "Left", "Right">>

FloodAngles(directly_visible) ==
    IF directly_visible THEN <<"Forward", "Left", "Right">> ELSE <<>>

\* los_rec, `visible(pos, v_light)`
Visible(acc, pos, v_light, sweep, direct) ==
    [acc EXCEPT !.reports = Append(@, [pos    |-> pos,
                                       light  |-> v_light,
                                       sweep  |-> sweep,
                                       direct |-> direct])]

\* los_rec, the loop over [Left, Right] of the else branch.
RECURSIVE los_rec_sides(_, _, _, _, _, _, _, _, _)
los_rec_sides(acc, o, l, s, pos, dir_to, rds, i, sweep) ==
    IF i > Len(rds)
    THEN acc
    ELSE LET npos == Step(pos, Turn(dir_to, rds[i]))
             side == los_check_line(o, l, s, npos)
         IN  los_rec_sides(IF side.visible
                           THEN Visible(acc, pos, side.light, sweep, FALSE)
                           ELSE acc,
                           o, l, s, pos, dir_to, rds, i + 1, sweep)

\* los2::los_rec(opaqueness, visible, light, start, pos, dir, visited); acc is
\* [reports, entered, visited, overflow], from is the pos of the calling los_rec.
RECURSIVE los2_los_rec(_, _, _, _, _, _, _, _, _)
RECURSIVE los_rec_flood(_, _, _, _, _, _, _, _, _, _)
los2_los_rec(acc, o, l, s, pos, dir, sweep, from, depth) ==
    IF acc.overflow
    THEN acc
    ELSE IF depth > StackDepth
    THEN [acc EXCEPT !.overflow = TRUE]
    ELSE IF pos \in acc.visited
    THEN acc
    ELSE LET res == los_check_line(o, l, s, pos)
             a1  == [acc EXCEPT !.visited = @ \cup {pos},
                                !.entered = Append(@, [pos    |-> pos,
                                                       sweep  |-> sweep,
                                                       from   |-> from,
                                                       direct |-> res.visible])]
             dto == direction_to_cw(s, pos)
             dir_to == IF dto = None THEN dir ELSE dto[1]
             a2  == IF res.visible
                    THEN Visible(a1, pos, res.light, sweep, TRUE)
                    ELSE los_rec_sides(a1, o, l, s, pos, dir_to, <<"Left", "Right">>, 1, sweep)
         IN  los_rec_flood(a2, o, l, s, pos, dir, sweep, FloodAngles(res.visible), 1, depth)

\* los_rec, the loop over [Forward, Left, Right].
los_rec_flood(acc, o, l, s, pos, dir, sweep, angles, i, depth) ==
    IF i > Len(angles)
    THEN acc
    ELSE LET back == los2_los_rec(acc, o, l, s, Step(pos, Turn(dir, angles[i])), dir,
                                  sweep, Some(pos), depth + 1)
         IN  IF back.overflow
             THEN back
             ELSE los_rec_flood(back, o, l, s, pos, dir, sweep, angles, i + 1, depth)

\* los2::los(opaqueness, visible, light, pos, dirs): a new visited set per dir.
RECURSIVE los2_los(_, _, _, _, _, _)
los2_los(acc, o, l, pos, ds, i) ==
    IF i > Len(ds)
    THEN acc
    ELSE LET back == los2_los_rec([acc EXCEPT !.visited = {}], o, l, pos, pos, ds[i],
                                  i, None, 1)
         IN  IF back.overflow
             THEN back
             ELSE los2_los(back, o, l, pos, ds, i + 1)

-----------------------------------------------------------------------------
(* The inputs of a search *)

\* can_pass: every interior coordinate except a set of walls, which is the start
\* alone (nothing is expanded then) or any set of its six neighbours; the
\* outermost ring of the disk is never passable, so the search stays inside World.
WallSets(s) == {{s}} \cup SUBSET {neighbors(s)[i] : i \in 1..6}

\* is_dest: nowhere, everywhere, exactly the impassable coordinates, or a single
\* coordinate of the ray.
DestSets(cp) == {{}, World, World \ cp} \cup {{c} : c \in Ray}

(* The inputs of a line of sight *)

\* opaqueness: the same value everywhere, or 1 everywhere except one coordinate
\* near the origin.
NearOrigin == {c \in (-MaxLight..MaxLight) \X (-MaxLight..MaxLight) :
                  HexDist(c, Origin) < MaxLight}

OpaqFunctions ==
    {[default |-> v, special |-> <<>>] : v \in 0..MaxOpaq}
    \cup {[default |-> 1, special |-> (b :> w)] : b \in NearOrigin, w \in (0..MaxOpaq) \ {1}}

\* dirs: one direction, or two neighbouring directions, or all six.
DirLists ==
    {<<d>> : d \in Directions} \cup {<<d, Turn(d, "Right")>> : d \in Directions} \cup {AllDirs}

-----------------------------------------------------------------------------
(* Actions *)

\* The traverser is not used in a line of sight run, and the reverse.
NoLine ==
    /\ entered = <<>>
    /\ line = <<>>
    /\ target = Origin
    /\ line_result = <<>>

NoLos ==
    /\ opaqueness = [default |-> 1, special |-> <<>>]
    /\ light = 1
    /\ origin = Origin
    /\ dirs = <<>>
    /\ los_pc = "off"
    /\ reports = <<>>
    /\ NoLine

NoBfs ==
    /\ visited = <<>>
    /\ to_traverse = <<>>
    /\ can_pass = {}
    /\ is_dest = {}
    /\ start = Origin
    /\ panicked = FALSE
    /\ pushed = <<>>
    /\ found = <<>>
    /\ nones = 0
    /\ last_call = [op |-> "none"]

\* The state after Traverser::new(can_pass, is_dest, start).
Setup(cp, dst, s) ==
    LET t == New(cp, dst, s)
    IN  /\ visited     = t.visited
        /\ to_traverse = t.to_traverse
        /\ can_pass    = t.can_pass
        /\ is_dest     = t.is_dest
        /\ start       = t.start
        /\ panicked    = FALSE
        /\ pushed      = t.to_traverse
        /\ found       = <<>>
        /\ nones       = 0
        /\ last_call   = [op |-> "new"]
        /\ NoLos

Init ==
    \E w \in WallSets(Origin) :
      \E dst \in DestSets(Interior \ w) : Setup(Interior \ w, dst, Origin)

\* One call of find().
Find ==
    /\ los_pc = "off"
    /\ ~panicked
    /\ to_traverse # <<>> \/ nones < MaxNone
    /\ LET t == FindLoop([ visited     |-> visited,
                           to_traverse |-> to_traverse,
                           can_pass    |-> can_pass,
                           is_dest     |-> is_dest,
                           start       |-> start,
                           panicked    |-> FALSE,
                           pushed      |-> pushed,
                           popped      |-> <<>>,
                           pre         |-> [visited |-> visited, to_traverse |-> to_traverse],
                           ret         |-> Pending ])
       IN  /\ visited'     = t.visited
           /\ to_traverse' = t.to_traverse
           /\ panicked'    = t.panicked
           /\ pushed'      = t.pushed
           /\ found'       = IF ~t.panicked /\ t.ret # None THEN Append(found, t.ret[1]) ELSE found
           /\ nones'       = IF ~t.panicked /\ t.ret = None THEN nones + 1 ELSE nones
           /\ last_call'   = [op |-> "find", ret |-> t.ret, popped |-> t.popped, pre |-> t.pre]
    /\ UNCHANGED <<can_pass, is_dest, start, los_vars>>

\* One call of backtrace(pos).
Backtrace ==
    /\ los_pc = "off"
    /\ ~panicked
    /\ \E pos \in Ray :
         last_call' = [op |-> "backtrace", pos |-> pos, ret |-> backtrace(visited, pos)]
    /\ UNCHANGED <<visited, to_traverse, can_pass, is_dest, start, panicked, pushed, found,
                   nones, los_vars>>

\* One call of backtrace_last(pos).
BacktraceLast ==
    /\ los_pc = "off"
    /\ ~panicked
    /\ \E pos \in Ray :
         last_call' = [op |-> "backtrace_last", pos |-> pos,
                       ret |-> backtrace_last(visited, start, pos)]
    /\ UNCHANGED <<visited, to_traverse, can_pass, is_dest, start, panicked, pushed, found,
                   nones, los_vars>>

\* The search alone: a traverser and its find calls.
Next == Find

Spec == Init /\ [][Next]_vars

\* The search with path reconstruction; every coordinate is a destination (each
\* find call then ends after one iteration of its loop) or none is.
InitTrace ==
    \E w \in WallSets(Origin) :
      \E dst \in {{}, World} : Setup(Interior \ w, dst, Origin)

NextTrace == Find \/ Backtrace \/ BacktraceLast

SpecTrace == InitTrace /\ [][NextTrace]_vars

\* A line of sight: the arguments of one los call.
InitLos ==
    /\ opaqueness \in OpaqFunctions
    /\ light \in 1..MaxLight
    /\ origin = Origin
    /\ dirs \in DirLists
    /\ los_pc = "ready"
    /\ reports = <<>>
    /\ NoLine
    /\ NoBfs

\* The call los(opaqueness, visible, light, origin, dirs).
Los ==
    /\ los_pc = "ready"
    /\ LET r == los([reports |-> <<>>, overflow |-> FALSE], opaqueness, light, origin, dirs, 1)
       IN  /\ reports' = r.reports
           /\ los_pc'  = IF r.overflow THEN "overflow" ELSE "done"
    /\ UNCHANGED <<opaqueness, light, origin, dirs, bfs_vars,
                   entered, line, target, line_result>>

NextLos == Los

SpecLos == InitLos /\ [][NextLos]_vars

\* The opaqueness closures of the los2 calls: every value is >= 1; one value
\* everywhere, or 1 with one other value near the origin.
Disk(r) == {c \in NearOrigin : HexDist(c, Origin) <= r}

OpaqFunctions2 ==
    {[default |-> v, special |-> <<>>] : v \in 1..MaxOpaq}
    \cup {[default |-> 1, special |-> (b :> w)] : b \in Disk(2), w \in 2..MaxOpaq}

\* dirs of the los2 calls: one direction, or two neighbouring directions.
DirLists2 == {<<d>> : d \in Directions} \cup {<<"XZ", "YZ">>}

InitLos2 ==
    /\ opaqueness \in OpaqFunctions2
    /\ light \in 1..MaxLight2
    /\ origin = Origin
    /\ dirs \in DirLists2
    /\ los_pc = "ready"
    /\ reports = <<>>
    /\ NoLine
    /\ NoBfs

\* The call los2::los(opaqueness, visible, light, origin, dirs).
Los2 ==
    /\ los_pc = "ready"
    /\ LET r == los2_los([reports |-> <<>>, entered |-> <<>>, visited |-> {},
                          overflow |-> FALSE], opaqueness, light, origin, dirs, 1)
       IN  /\ reports' = r.reports
           /\ entered' = r.entered
           /\ los_pc'  = IF r.overflow THEN "overflow" ELSE "done"
    /\ UNCHANGED <<opaqueness, light, origin, dirs, bfs_vars, line, target, line_result>>

NextLos2 == Los2

SpecLos2 == InitLos2 /\ [][NextLos2]_vars

\* The cells of the candidate pairs handed to los_check_line, the lines of up to
\* MaxLine pairs over them, and the opaqueness closures that differ on them.
LineCells == {Step(Origin, "XZ"), Step(Step(Origin, "XZ"), "XZ")}

Lines == UNION {[1..n -> LineCells \X LineCells] : n \in 0..MaxLine}

LineOpaq == {o \in OpaqFunctions : DOMAIN o.special \subseteq LineCells \cup {Origin}}

InitLine ==
    /\ opaqueness \in LineOpaq
    /\ light \in 1..MaxLight
    /\ origin = Origin
    /\ dirs = <<>>
    /\ los_pc = "ready"
    /\ reports = <<>>
    /\ entered = <<>>
    /\ line \in Lines
    /\ target \in LineCells \cup {Origin}
    /\ line_result = None
    /\ NoBfs

\* The body of los_check_line(opaqueness, light, origin, target, dir) for the
\* candidate pairs of line.
CheckLine ==
    /\ los_pc = "ready"
    /\ line_result' = Some(los_check_line_over(opaqueness, light, origin, line, target))
    /\ los_pc' = "done"
    /\ UNCHANGED <<opaqueness, light, origin, dirs, reports, entered, line, target, bfs_vars>>

NextLine == CheckLine

SpecLine == InitLine /\ [][NextLine]_vars

-----------------------------------------------------------------------------
(* Helpers of the properties *)

Range(q) == {q[i] : i \in DOMAIN q}

NoDup(q) == \A i, j \in DOMAIN q : i # j => q[i] # q[j]

\* The coordinates a walk of exactly k steps from the start can reach first, where
\* every coordinate the walk steps from satisfies can_pass: c |-> least such k.
RECURSIVE WalkLayers(_, _, _)
WalkLayers(frontier, seen, k) ==
    IF frontier = {}
    THEN <<>>
    ELSE LET nxt == {Step(p, d) : <<p, d>> \in (frontier \cap can_pass) \X Directions} \ seen
         IN  [c \in frontier |-> k] @@ WalkLayers(nxt, seen \cup nxt, k + 1)

MinSteps == WalkLayers({start}, {start}, 0)

\* backtrace applied k times from c (c and its chain are visited).
RECURSIVE IterBack(_, _)
IterBack(c, k) ==
    IF k = 0 THEN c
    ELSE LET b == backtrace(visited, c)
         IN  IF b = None THEN c ELSE IterBack(b[1], k - 1)

\* The passable coordinates connected to the start through passable coordinates.
RECURSIVE Grow(_, _)
Grow(r, frontier) ==
    LET more == ({Step(p, d) : <<p, d>> \in frontier \X Directions} \cap can_pass) \ r
    IN  IF more = {} THEN r ELSE Grow(r \cup more, more)

Reach == IF start \in can_pass THEN Grow({start}, {start}) ELSE {}

\* The destinations C5 says find returns: start, or next to a reachable passable cell.
Expected == is_dest \cap ({start} \cup {Step(p, d) : <<p, d>> \in Reach \X Directions})

-----------------------------------------------------------------------------
(* Properties of bfs::Traverser *)

\* C1: every recorded dist is the least number of steps of a walk from start over
\* adjacent cells whose stepped-from cells all satisfy can_pass; dist(start) = 0.
C1_ShortestDist ==
    LET m == MinSteps
    IN  /\ visited[start].dist = 0
        /\ \A c \in DOMAIN visited : c \in DOMAIN m /\ visited[c].dist = m[c]

\* C1 witness: after a find, a coordinate two cells from the start is recorded at
\* dist 3 because the direct way is blocked.
C1_Witness ==
    /\ last_call.op = "find"
    /\ \E c \in DOMAIN visited : HexDist(start, c) = 2 /\ visited[c].dist = 3

\* C2: the coordinates find has returned so far have non-decreasing recorded dist.
C2_FoundMonotone ==
    \A i, j \in DOMAIN found :
        i < j => visited[found[i]].dist <= visited[found[j]].dist

\* C2 witness: find has returned coordinates at dist 0, 1, 2 and 3.
C2_Witness ==
    /\ Len(found) >= 4
    /\ {visited[found[i]].dist : i \in DOMAIN found} = 0..3

\* C3: from every visited c, backtrace gives an adjacent coordinate of dist one
\* less, reaches start after exactly dist(c) applications, and is c only for start.
C3_BacktraceChain ==
    \A c \in DOMAIN visited :
        LET b == backtrace(visited, c)
        IN  /\ b # None
            /\ b[1] \in DOMAIN visited
            /\ (b[1] = c) <=> (c = start)
            /\ c # start => /\ Adjacent(b[1], c)
                            /\ visited[b[1]].dist + 1 = visited[c].dist
            /\ IterBack(c, visited[c].dist) = start
            /\ \A k \in 0..(visited[c].dist - 1) : IterBack(c, k) # start

\* C3 witness: backtrace was called on a coordinate recorded at dist 3 or more.
C3_Witness ==
    /\ last_call.op = "backtrace"
    /\ last_call.pos \in DOMAIN visited
    /\ visited[last_call.pos].dist >= 3
    /\ last_call.ret = Some(visited[last_call.pos].prev)

\* C4: a find call never changes or removes a VisitRecord, and no coordinate is
\* pushed onto to_traverse twice.
C4_FirstDiscoveryWins ==
    [][ /\ \A c \in DOMAIN visited : c \in DOMAIN visited' /\ visited'[c] = visited[c]
        /\ NoDup(pushed') ]_vars

\* C4 witness: a find call has expanded a coordinate whose neighbours were partly
\* visited already (more records than start and its six neighbours exist).
C4_Witness ==
    /\ last_call.op = "find"
    /\ Cardinality(DOMAIN visited) > 7
    /\ Len(pushed) = Cardinality(DOMAIN visited)

\* C5: find returns only expected destinations, each once; when it has returned
\* None every expected destination has been returned, and it returns None again.
C5_FindsAllThenNone ==
    /\ NoDup(found)
    /\ Range(found) \subseteq Expected
    /\ nones > 0 => /\ Expected \subseteq Range(found)
                    /\ to_traverse = <<>>
                    /\ last_call.op = "find" => last_call.ret = None

\* C5 witness: find returned None twice after returning some but not all of the
\* coordinates satisfying is_dest, one of them impassable.
C5_Witness ==
    /\ nones = 2
    /\ last_call.op = "find"
    /\ Len(found) >= 7
    /\ Range(found) # is_dest
    /\ Range(found) \ can_pass # {}

\* C6: a popped coordinate that is a destination but not passable ends the find
\* call, is returned, and its iteration only removes it from the queue front.
C6_ImpassableDest ==
    last_call.op = "find" =>
        \A i \in DOMAIN last_call.popped :
            LET pos == last_call.popped[i]
            IN  (pos \in is_dest /\ pos \notin can_pass) =>
                    /\ i = Len(last_call.popped)
                    /\ last_call.ret = Some(pos)
                    /\ visited = last_call.pre.visited
                    /\ last_call.pre.to_traverse # <<>>
                    /\ Head(last_call.pre.to_traverse) = pos
                    /\ to_traverse = Tail(last_call.pre.to_traverse)

\* C6 witness: a find call popped passable non-destinations first and then
\* returned an impassable destination.
C6_Witness ==
    /\ last_call.op = "find"
    /\ Len(last_call.popped) >= 2
    /\ last_call.ret # None
    /\ last_call.ret[1] \in is_dest \ can_pass
    /\ to_traverse # <<>>

\* C7: backtrace_last(pos) is None for an unvisited pos, start for start, and for
\* any other visited pos ends with a neighbour of start whose predecessor is start
\* and which lies on the backtrace chain of pos.
C7_BacktraceLast ==
    \A pos \in World :
        LET r == backtrace_last(visited, start, pos)
        IN  /\ r # Diverges
            /\ pos \notin DOMAIN visited => r = None
            /\ pos = start => r = Some(start)
            /\ (pos \in DOMAIN visited /\ pos # start) =>
                   /\ r # None
                   /\ r[1] \in DOMAIN visited
                   /\ Adjacent(r[1], start)
                   /\ visited[r[1]].prev = start
                   /\ \E k \in 0..visited[pos].dist : IterBack(pos, k) = r[1]

\* C7 witness: backtrace_last was called on a coordinate at dist 3 or more and
\* returned another coordinate.
C7_Witness ==
    /\ last_call.op = "backtrace_last"
    /\ last_call.pos \in DOMAIN visited
    /\ visited[last_call.pos].dist >= 3
    /\ last_call.ret # None
    /\ last_call.ret # Some(last_call.pos)

\* C8: every queued coordinate is a key of visited, and the expect() of find has
\* never failed.
C8_NoFatalPath ==
    /\ ~panicked
    /\ \A i \in DOMAIN to_traverse : to_traverse[i] \in DOMAIN visited

\* C8 witness: a find call looked up a passable popped coordinate and left
\* several coordinates queued.
C8_Witness ==
    /\ last_call.op = "find"
    /\ \E i \in DOMAIN last_call.popped : last_call.popped[i] \in can_pass \ {start}
    /\ Len(to_traverse) >= 2

-----------------------------------------------------------------------------
(* Properties of los::los *)

NonNegative(o) ==
    /\ o.default >= 0
    /\ \A c \in DOMAIN o.special : o.special[c] >= 0

Uniform(v) == [default |-> v, special |-> <<>>]

\* The hex distances from the origin of the coordinates passed to visible.
ReportedDistances == {HexDist(origin, reports[i].pos) : i \in DOMAIN reports}

\* C9: with a positive light and a non-negative opaqueness the recursion of every
\* sweep ends: a los call never nests los_rec calls until the stack is exhausted.
C9_SweepsTerminate ==
    (light > 0 /\ NonNegative(opaqueness)) => los_pc # "overflow"

StepN(c, d, n) == <<c[1] + n * DirVec(d)[1], c[2] + n * DirVec(d)[2]>>

\* The coordinates origin + j*d with j >= k that a light of MaxLight can concern.
RayFrom(d, k) == {StepN(origin, d, j) : j \in k..(MaxLight + 1)}

Positions(reps) == {reps[i].pos : i \in DOMAIN reps}

\* The los call of the state with another opaqueness.
LosWith(o) == los([reports |-> <<>>, overflow |-> FALSE], o, light, origin, dirs, 1)

BlockerOnRay(k) ==
    /\ los_pc = "done"
    /\ Len(dirs) = 1
    /\ opaqueness.default = 1
    /\ DOMAIN opaqueness.special = {StepN(origin, dirs[1], k)}
    /\ Opaq(opaqueness, StepN(origin, dirs[1], k)) >= light

C11_BlockerOnRay ==
    \A k \in 1..MaxLight :
        BlockerOnRay(k) =>
            /\ Positions(reports) \cap RayFrom(dirs[1], k + 1) = {}
            /\ (Positions(LosWith(Uniform(1)).reports) \ RayFrom(dirs[1], k))
                   \subseteq Positions(reports)

\* C11 witness: the blocker is next to the origin, the ray beyond it would be lit
\* without it, and coordinates two steps from the origin are still reported.
C11_Witness ==
    /\ BlockerOnRay(1)
    /\ StepN(origin, dirs[1], 2) \in Positions(LosWith(Uniform(1)).reports)
    /\ \E i \in DOMAIN reports : Len(reports[i].path) = 2

\* C12: raising the opaqueness of one coordinate (all values non-negative) adds no
\* reported coordinate and raises the largest light reported for no coordinate.
DiffersAtOne(o, p) ==
    LET cs == {c \in DOMAIN o.special \cup DOMAIN p.special : Opaq(o, c) # Opaq(p, c)}
    IN  /\ o.default = p.default
        /\ Cardinality(cs) = 1
        /\ \A c \in cs : Opaq(o, c) < Opaq(p, c)

\* The opaqueness functions that are lower than p at exactly one coordinate.
Lower(p) == {o \in OpaqFunctions : NonNegative(o) /\ DiffersAtOne(o, p)}

Brightest(reps, c) ==
    LET ls == {reps[i].light : i \in {j \in DOMAIN reps : reps[j].pos = c}}
    IN  CHOOSE l \in ls : \A m \in ls : m <= l

NoBrighter(repsHigh, repsLow) ==
    \A c \in Positions(repsHigh) :
        /\ c \in Positions(repsLow)
        /\ Brightest(repsHigh, c) <= Brightest(repsLow, c)

C12_LightMonotone ==
    (los_pc = "done" /\ NonNegative(opaqueness)) =>
        \A o \in Lower(opaqueness) :
            LET low == LosWith(o)
            IN  ~low.overflow /\ NoBrighter(reports, low.reports)

\* C12 witness: the los call ran with one coordinate more opaque than 1, and with
\* opaqueness 1 there the call reports a coordinate this call does not report.
C12_Witness ==
    /\ los_pc = "done"
    /\ Uniform(1) \in Lower(opaqueness)
    /\ Positions(LosWith(Uniform(1)).reports) \ Positions(reports) # {}
    /\ reports # <<>>

\* C15: two reports of one coordinate in one los call never carry the same light.
C15_RepeatsDifferInLight ==
    \A i, j \in DOMAIN reports :
        (i < j /\ reports[i].pos = reports[j].pos) => reports[i].light # reports[j].light

\* C17: every report carries the light left after the opaqueness of every
\* coordinate of its recursion path, its own included; that light is positive and
\* not greater than the light of the report of its parent, which exists.
RECURSIVE PathSum(_, _, _)
PathSum(o, c, path) ==
    IF path = <<>>
    THEN Opaq(o, c)
    ELSE Opaq(o, c) + PathSum(o, Step(c, Head(path)), Tail(path))

Front(q) == SubSeq(q, 1, Len(q) - 1)

C17_ReportedLight ==
    \A i \in DOMAIN reports :
        LET r == reports[i]
        IN  /\ r.light = light - PathSum(opaqueness, origin, r.path)
            /\ r.light > 0
            /\ Opaq(opaqueness, r.pos) < r.light + Opaq(opaqueness, r.pos)
            /\ r.path # <<>> =>
                   \E j \in 1..(i - 1) :
                       /\ reports[j].sweep = r.sweep
                       /\ reports[j].path = Front(r.path)
                       /\ r.light <= reports[j].light

\* C17 witness: a call has reported a coordinate of opaqueness 2 and a coordinate
\* behind it, and has not reported a neighbour of the origin it was blocked at.
C17_Witness ==
    /\ los_pc = "done"
    /\ \E d \in Directions : Step(origin, d) \notin Positions(reports)
    /\ \E i, j \in DOMAIN reports :
           /\ i < j
           /\ Opaq(opaqueness, reports[i].pos) = 2
           /\ reports[j].sweep = reports[i].sweep
           /\ reports[j].path # <<>>
           /\ Front(reports[j].path) = reports[i].path

\* C20: in the sweep of direction D every recursion path steps in D, D + Left or
\* D + Right only, uses at most two directions, neighbours of each other, keeps a
\* direction it took twice in a row, and ends at hex distance = its length.
RECURSIVE Walk(_, _)
Walk(c, path) == IF path = <<>> THEN c ELSE Walk(Step(c, Head(path)), Tail(path))

C20_PathShape ==
    \A i \in DOMAIN reports :
        LET r == reports[i]
            p == r.path
            D == dirs[r.sweep]
        IN  /\ Range(p) \subseteq {D, Turn(D, "Left"), Turn(D, "Right")}
            /\ Cardinality(Range(p)) <= 2
            /\ \A a, b \in Range(p) : a # b => b \in {Turn(a, "Left"), Turn(a, "Right")}
            /\ \A k \in 2..(Len(p) - 1) : p[k - 1] = p[k] => p[k + 1] = p[k]
            /\ r.pos = Walk(origin, p)
            /\ HexDist(origin, r.pos) = Len(p)

\* C20 witness: paths of three steps were reported, one that turns at every step
\* and one that keeps its direction.
C20_Witness ==
    /\ los_pc = "done"
    /\ \E i, j \in DOMAIN reports :
           /\ Len(reports[i].path) = 3
           /\ reports[i].path[1] # reports[i].path[2]
           /\ reports[i].path[2] # reports[i].path[3]
           /\ Len(reports[j].path) = 3
           /\ reports[j].path[2] = reports[j].path[3]
           /\ reports[j].path[1] # reports[j].path[2]

-----------------------------------------------------------------------------
(* The queue of bfs::Traverser *)

\* C19: the queued coordinates are pairwise distinct, in non-decreasing order of
\* recorded dist, and the back is at most one step farther than the front.
C19_QueueOrder ==
    /\ NoDup(to_traverse)
    /\ \A i, j \in DOMAIN to_traverse :
           i < j => visited[to_traverse[i]].dist <= visited[to_traverse[j]].dist
    /\ to_traverse # <<>> =>
           visited[to_traverse[Len(to_traverse)]].dist <= visited[Head(to_traverse)].dist + 1

\* C19 witness: after a find call the queue holds coordinates of two distances.
C19_Witness ==
    /\ last_call.op = "find"
    /\ Len(to_traverse) >= 3
    /\ visited[Head(to_traverse)].dist = 2
    /\ visited[to_traverse[Len(to_traverse)]].dist = 3

-----------------------------------------------------------------------------
(* Properties of los2::los *)

\* The los2::los call of the state with another opaqueness.
Los2With(o) ==
    los2_los([reports |-> <<>>, entered |-> <<>>, visited |-> {}, overflow |-> FALSE],
             o, light, origin, dirs, 1)

\* The opaqueness functions with values >= 1 that are lower than p at exactly one
\* coordinate near the origin.
Lower2(p) ==
    {[p EXCEPT !.special = (c :> v) @@ @] :
         c \in {b \in Disk(2) : Opaq(p, b) > 1}, v \in 1..(MaxOpaq - 1)}

\* C13: in los2::los, raising the opaqueness of one coordinate (all values >= 1)
\* adds no reported coordinate and raises the largest light reported for no
\* coordinate.
C13_Los2LightMonotone ==
    los_pc = "done" =>
        \A o \in Lower2(opaqueness) :
            DiffersAtOne(o, opaqueness) => NoBrighter(reports, Los2With(o).reports)

\* C14: within one sweep of los2::los no coordinate is passed to visible twice.
C14_VisibleOncePerSweep ==
    \A i, j \in DOMAIN reports :
        (i < j /\ reports[i].sweep = reports[j].sweep) => reports[i].pos # reports[j].pos

\* C18: every los2::los_rec call that inserted its pos into visited was made for
\* the origin or from a directly visible coordinate, for its Forward, Left or
\* Right neighbour; no call is made from a coordinate that is not directly visible.
DirectlyVisible(sweep) ==
    {entered[i].pos : i \in {j \in DOMAIN entered :
                                entered[j].sweep = sweep /\ entered[j].direct}}

C18_FloodFromDirect ==
    \A i \in DOMAIN entered :
        LET e == entered[i]
            D == dirs[e.sweep]
        IN  IF e.from = None
            THEN e.pos = origin
            ELSE /\ e.from[1] \in DirectlyVisible(e.sweep)
                 /\ e.pos \in {Step(e.from[1], Turn(D, a)) : a \in {"Forward", "Left", "Right"}}
                 /\ \E j \in 1..(i - 1) :
                        /\ entered[j].sweep = e.sweep
                        /\ entered[j].pos = e.from[1]
                        /\ entered[j].direct

\* C18 witness: a coordinate that failed its direct line check was reported
\* through the side-neighbour fallback, and some other coordinate of the sweep
\* was entered from a directly visible one.
C18_Witness ==
    /\ los_pc = "done"
    /\ \E i \in DOMAIN reports, j, k \in DOMAIN entered :
           /\ ~reports[i].direct
           /\ entered[j].pos = reports[i].pos
           /\ entered[j].sweep = reports[i].sweep
           /\ ~entered[j].direct
           /\ entered[k].sweep = reports[i].sweep
           /\ entered[k].from # None
           /\ HexDist(entered[k].pos, entered[j].pos) = 1

-----------------------------------------------------------------------------
(* Properties of los2::los_check_line *)

\* The k-th candidate line of a sequence of pairs.
Candidate(pairs, k) == [i \in DOMAIN pairs |-> pairs[i][k]]

RECURSIVE SumTo(_, _, _)
SumTo(o, cells, n) == IF n = 0 THEN 0 ELSE SumTo(o, cells, n - 1) + Opaq(o, cells[n])

\* How many cells of a candidate line are accumulated: up to and including the
\* first whose running sum is >= l.
Accumulated(o, l, cells) ==
    CHOOSE n \in 0..Len(cells) :
        /\ n = Len(cells) \/ SumTo(o, cells, n) >= l
        /\ \A m \in 0..(n - 1) : SumTo(o, cells, m) < l

Reaches(o, l, s, cells, pos) ==
    LET n == Accumulated(o, l, cells)
    IN  (IF n = 0 THEN s ELSE cells[n]) = pos

LineSum(o, l, cells) == SumTo(o, cells, Accumulated(o, l, cells))

\* C16: los_check_line returns (true, light - min of the two sums) when both
\* candidate lines reach pos, (true, light - its sum) when exactly one does and
\* (false, 0) when neither does; a line reaches pos iff the last cell it
\* accumulated is pos, and it accumulates until its running sum is >= light.
C16_CheckLine ==
    line_result # None =>
        LET c1 == Candidate(line, 1)
            c2 == Candidate(line, 2)
            r1 == Reaches(opaqueness, light, origin, c1, target)
            r2 == Reaches(opaqueness, light, origin, c2, target)
            s1 == LineSum(opaqueness, light, c1)
            s2 == LineSum(opaqueness, light, c2)
        IN  line_result[1] =
                IF r1 /\ r2 THEN [visible |-> TRUE, light |-> light - Min(s1, s2)]
                ELSE IF r1 THEN [visible |-> TRUE, light |-> light - s1]
                ELSE IF r2 THEN [visible |-> TRUE, light |-> light - s2]
                ELSE [visible |-> FALSE, light |-> 0]

\* C16 witness: both candidate lines reach pos, the second with the smaller sum,
\* and the first stopped accumulating before its end.
C16_Witness ==
    /\ line_result # None
    /\ Len(line) = MaxLine
    /\ Reaches(opaqueness, light, origin, Candidate(line, 1), target)
    /\ Reaches(opaqueness, light, origin, Candidate(line, 2), target)
    /\ Accumulated(opaqueness, light, Candidate(line, 1)) < Len(line)
    /\ LineSum(opaqueness, light, Candidate(line, 2))
           < LineSum(opaqueness, light, Candidate(line, 1))

====
